---- MODULE Spec2Model ----
(***************************************************************************)
(* Event-sourced inventory ledger and replenishment-signal engine of the   *)
(* inventory demo: the scan_events and replenishment_signals tables, the   *)
(* per-instance debounce cache, and the intake / consume / acknowledge     *)
(* request handlers.  Every `with self.session()` of db/postgres.py is one *)
(* database transaction; service instances interleave between the          *)
(* statements of different transactions (READ COMMITTED).                  *)
(***************************************************************************)
EXTENDS Integers, Sequences, FiniteSets, TLC

\* ------------------------------------------------------------------ bounds
NumProcs == 2
MaxEvents == 3
MaxAcks == 1
MaxTime == 3

\* ------------------------------------------------------- program constants
reorder_point == 10
reorder_qty == 24
debounce_seconds == 3
prune_horizon_seconds == 60
default_limit == 50

Procs == 1..NumProcs

\* --------------------------------------------------------------- barcodes
\* A raw barcode is the sequence of its characters.
bcA12 == <<"I","T","E","M","=","A",";","Q","T","Y","=","1","2">>
bcA3 == <<"I","T","E","M","=","A",";","Q","T","Y","=","3">>
bcB3 == <<"I","T","E","M","=","B",";","Q","T","Y","=","3">>
bcA0 == <<"I","T","E","M","=","A",";","Q","T","Y","=","0">>

Barcodes == {bcA12, bcA3, bcB3, bcA0}

\* Raw strings for the parser: padded with blanks, without digits, without
\* an item id, with a character after the digits.
bcPadded == <<" ","I","T","E","M","=","A",";","Q","T","Y","=","3"," ">>
bcNoDigits == <<"I","T","E","M","=","A",";","Q","T","Y","=">>
bcNoItem == <<"I","T","E","M","=",";","Q","T","Y","=","3">>
bcTrailing == <<"I","T","E","M","=","A",";","Q","T","Y","=","3","x">>

\* Strings that bring the on-hand quantity to the reorder point itself.
bcA10 == <<"I","T","E","M","=","A",";","Q","T","Y","=","1","0">>

ThresholdBarcodes == {bcA10, bcA3, bcA12}

ParserBarcodes == {bcA12, bcPadded, bcA0, bcNoDigits, bcNoItem, bcTrailing}
BarcodesOfA == {bcA12, bcA3}
PruneBarcodes == {bcA12, bcA0, bcNoItem}

\* A delivery of one reorder quantity.
bcA24 == <<"I","T","E","M","=","A",";","Q","T","Y","=","2","4">>

AtomicBarcodes == {bcA3, bcA24}
RepeatBarcodes == {bcA12, bcA3, bcA0}

Whitespace == {" "}
DigitChars == {"0","1","2","3","4","5","6","7","8","9"}

DigitVal(c) ==
    CASE c = "0" -> 0 [] c = "1" -> 1 [] c = "2" -> 2 [] c = "3" -> 3
      [] c = "4" -> 4 [] c = "5" -> 5 [] c = "6" -> 6 [] c = "7" -> 7
      [] c = "8" -> 8 [] c = "9" -> 9

RECURSIVE LStrip(_)
LStrip(s) == IF s # <<>> /\ Head(s) \in Whitespace THEN LStrip(Tail(s)) ELSE s

RECURSIVE RStrip(_)
RStrip(s) ==
    IF s # <<>> /\ s[Len(s)] \in Whitespace
    THEN RStrip(SubSeq(s, 1, Len(s) - 1)) ELSE s

Strip(s) == RStrip(LStrip(s))

RECURSIVE ToInt(_)
ToInt(ds) ==
    IF ds = <<>> THEN 0
    ELSE 10 * ToInt(SubSeq(ds, 1, Len(ds) - 1)) + DigitVal(ds[Len(ds)])

ItemPrefix == <<"I","T","E","M","=">>
QtyPrefix == <<";","Q","T","Y","=">>

\* Positions of ';' after the ITEM= prefix.
SemiPositions(s) == {k \in 6..Len(s) : s[k] = ";"}

\* re.match(r"^ITEM=([^;]+);QTY=(\d+)$", barcode_raw.strip())
RegexMatch(s) ==
    /\ Len(s) >= 5
    /\ SubSeq(s, 1, 5) = ItemPrefix
    /\ SemiPositions(s) # {}
    /\ LET k == CHOOSE x \in SemiPositions(s) : \A y \in SemiPositions(s) : x <= y
       IN /\ k > 6
          /\ Len(s) >= k + 5
          /\ SubSeq(s, k, k + 4) = QtyPrefix
          /\ \A i \in (k + 5)..Len(s) : s[i] \in DigitChars

MatchItem(s) ==
    LET k == CHOOSE x \in SemiPositions(s) : \A y \in SemiPositions(s) : x <= y
    IN SubSeq(s, 6, k - 1)

MatchQty(s) ==
    LET k == CHOOSE x \in SemiPositions(s) : \A y \in SemiPositions(s) : x <= y
    IN ToInt(SubSeq(s, k + 5, Len(s)))

\* Mutant of parse_barcode: the test of qty <= 0 is missing.
parse_barcode_AllowsZero(barcode_raw) ==
    LET s == Strip(barcode_raw) IN
    IF ~RegexMatch(s) THEN [ok |-> FALSE, item_id |-> <<>>, qty |-> 0]
    ELSE [ok |-> TRUE, item_id |-> MatchItem(s), qty |-> MatchQty(s)]

\* parse_barcode: [ok, item_id, qty]; ok = FALSE stands for BarcodeParseError.
parse_barcode(barcode_raw) ==
    LET s == Strip(barcode_raw) IN
    IF ~RegexMatch(s) THEN [ok |-> FALSE, item_id |-> <<>>, qty |-> 0]
    ELSE IF MatchQty(s) <= 0 THEN [ok |-> FALSE, item_id |-> <<>>, qty |-> 0]
    ELSE [ok |-> TRUE, item_id |-> MatchItem(s), qty |-> MatchQty(s)]

\* ------------------------------------------------------------------ state
VARIABLES
    scan_events,            \* table scan_events, in insertion order
    replenishment_signals,  \* table replenishment_signals; the row id is the index
    db_now,                 \* database clock: NOW() of a transaction that starts
    now,                    \* wall clock of the service instances, in seconds
    last_scans,             \* last_scans[p]: the debounce cache of instance p
    pc,                     \* pc[p]: where instance p's current request stands
    req,                    \* req[p]: the locals of instance p's current request
                            \* (req[p].raced is history: no guard reads it)
    ret                     \* what the request that finished last returned

vars == <<scan_events, replenishment_signals, db_now, now, last_scans, pc, req, ret>>

EmptyCache == [b \in {} |-> 0]

NoReq ==
    [op |-> "none", item_id |-> <<>>, event_id |-> 0, on_hand_qty |-> 0,
     signal_id |-> 0, txn_ts |-> 0, selected |-> <<>>, raced |-> FALSE]

NoRet ==
    [proc |-> 0, op |-> "none", status |-> "none", event_id |-> 0,
     on_hand_qty |-> 0, signal |-> <<>>,
     events |-> <<>>, total_items |-> 0, total_qty |-> 0]

Init ==
    /\ scan_events = <<>>
    /\ replenishment_signals = <<>>
    /\ db_now = 0
    /\ now = 0
    /\ last_scans = [p \in Procs |-> EmptyCache]
    /\ pc = [p \in Procs |-> "idle"]
    /\ req = [p \in Procs |-> NoReq]
    /\ ret = NoRet

\* ---------------------------------------------------------- ledger reads
RECURSIVE SumQty(_, _, _)
\* SUM(CASE WHEN event_type = t THEN qty ELSE 0 END) ... WHERE item_id = item
SumQty(events, item, t) ==
    IF events = <<>> THEN 0
    ELSE LET e == events[Len(events)]
         IN SumQty(SubSeq(events, 1, Len(events) - 1), item, t)
              + (IF e.item_id = item /\ e.event_type = t THEN e.qty ELSE 0)

\* Mutant of get_inventory_item: the consume total added, not subtracted.
get_inventory_item_SignSlip(events, item) ==
    IF \A i \in 1..Len(events) : events[i].item_id # item
    THEN [present |-> FALSE, intake_total |-> 0, consume_total |-> 0,
          on_hand_qty |-> 0]
    ELSE [present |-> TRUE,
          intake_total |-> SumQty(events, item, "INTAKE"),
          consume_total |-> SumQty(events, item, "CONSUME"),
          on_hand_qty |-> SumQty(events, item, "INTAKE")
                            + SumQty(events, item, "CONSUME")]

\* Mutant of get_inventory_item: an item whose totals cancel has no row.
get_inventory_item_AbsentAtZero(events, item) ==
    IF \/ \A i \in 1..Len(events) : events[i].item_id # item
       \/ SumQty(events, item, "INTAKE") = SumQty(events, item, "CONSUME")
    THEN [present |-> FALSE, intake_total |-> 0, consume_total |-> 0,
          on_hand_qty |-> 0]
    ELSE [present |-> TRUE,
          intake_total |-> SumQty(events, item, "INTAKE"),
          consume_total |-> SumQty(events, item, "CONSUME"),
          on_hand_qty |-> SumQty(events, item, "INTAKE")
                            - SumQty(events, item, "CONSUME")]

\* get_inventory_item: the GROUP BY yields no row for an item without events.
get_inventory_item(events, item) ==
    IF \A i \in 1..Len(events) : events[i].item_id # item
    THEN [present |-> FALSE, intake_total |-> 0, consume_total |-> 0,
          on_hand_qty |-> 0]
    ELSE [present |-> TRUE,
          intake_total |-> SumQty(events, item, "INTAKE"),
          consume_total |-> SumQty(events, item, "CONSUME"),
          on_hand_qty |-> SumQty(events, item, "INTAKE")
                            - SumQty(events, item, "CONSUME")]

\* Mutant of get_on_hand_qty: the read misses the event appended last.
get_on_hand_qty_BeforeAppend(events, item) ==
    LET inventory == get_inventory_item(SubSeq(events, 1, Len(events) - 1), item)
    IN IF ~inventory.present THEN 0 ELSE inventory.on_hand_qty

\* Mutant of get_on_hand_qty: an overdrawn item reads as empty.
get_on_hand_qty_Floored(events, item) ==
    LET inventory == get_inventory_item(events, item)
    IN IF ~inventory.present \/ inventory.on_hand_qty < 0 THEN 0
       ELSE inventory.on_hand_qty

get_on_hand_qty(events, item) ==
    LET inventory == get_inventory_item(events, item)
    IN IF ~inventory.present THEN 0 ELSE inventory.on_hand_qty

\* ---------------------------------------------------- signal-table reads
\* Row ids passing WHERE item_id = item / WHERE signal_id = sid.
RowsOfItem(rows, item) == {i \in 1..Len(rows) : rows[i].item_id = item}
RowsOfSignal(rows, sid) == {i \in 1..Len(rows) : rows[i].signal_id = sid}

\* ROW_NUMBER() OVER (PARTITION BY signal_id ORDER BY created_ts DESC) = 1 over
\* the rows S: one row of greatest created_ts per signal_id.  The ORDER BY
\* names no tie-break, so among rows of equal created_ts any may rank first.
LatestChoices(rows, S) ==
    LET sids == {rows[i].signal_id : i \in S}
    IN {f \in [sids -> S] :
          \A s \in sids :
            /\ rows[f[s]].signal_id = s
            /\ \A j \in S : rows[j].signal_id = s
                             => rows[j].created_ts <= rows[f[s]].created_ts}

\* Mutant of has_open_signal: the check never finds an OPEN signal.
has_open_signal_Never(rows, item) == {FALSE}

\* Mutant of has_open_signal: any row of the item counts, not the latest.
has_open_signal_AnyRow(rows, item) ==
    {\E i \in RowsOfItem(rows, item) : rows[i].status = "OPEN"}

\* Mutant of has_open_signal: an ACKNOWLEDGED signal counts as open.
has_open_signal_Unfulfilled(rows, item) ==
    {(\E s \in DOMAIN f : rows[f[s]].status \in {"OPEN", "ACKNOWLEDGED"}) :
        f \in LatestChoices(rows, RowsOfItem(rows, item))}

\* has_open_signal: the answers the query can give.
has_open_signal(rows, item) ==
    {(\E s \in DOMAIN f : rows[f[s]].status = "OPEN") :
        f \in LatestChoices(rows, RowsOfItem(rows, item))}

\* Mutant of fulfill_select: the status filter names the wrong status.
fulfill_select_WrongStatus(rows, item) ==
    {{f[s] : s \in {x \in DOMAIN f : rows[f[x]].status = "FULFILLED"}} :
        f \in LatestChoices(rows, RowsOfItem(rows, item))}

\* The SELECT of fulfill_open_signals: the sets of row ids it can return.
fulfill_select(rows, item) ==
    {{f[s] : s \in {x \in DOMAIN f : rows[f[x]].status = "OPEN"}} :
        f \in LatestChoices(rows, RowsOfItem(rows, item))}

\* Mutant of update_select: the WHERE signal_id filter is missing.
update_select_AnySignal(rows, sid) ==
    IF rows = <<>> THEN {}
    ELSE {i \in 1..Len(rows) :
            \A j \in 1..Len(rows) : rows[j].created_ts <= rows[i].created_ts}

\* The SELECT of update_signal_status: the row ids it can return (none: {}).
update_select(rows, sid) ==
    IF RowsOfSignal(rows, sid) = {} THEN {}
    ELSE {f[sid] : f \in LatestChoices(rows, RowsOfSignal(rows, sid))}

\* The orders in which a SELECT without ORDER BY can return the row ids S.
Orderings(S) ==
    {q \in [1..Cardinality(S) -> S] : \A i, j \in 1..Cardinality(S) : i # j => q[i] # q[j]}

\* live_inventory LEFT JOINed to a signal row: COALESCE(i.on_hand_qty, 0).
live_inventory(events, item) ==
    IF \A i \in 1..Len(events) : events[i].item_id # item
    THEN 0
    ELSE SumQty(events, item, "INTAKE") - SumQty(events, item, "CONSUME")

\* Mutant of SignalView: the stored snapshot shown as the current quantity.
SignalView_Snapshot(row, events) ==
    [signal_id |-> row.signal_id, created_ts |-> row.created_ts,
     item_id |-> row.item_id,
     current_qty |-> row.triggered_at_qty,
     triggered_at_qty |-> row.triggered_at_qty,
     reorder_point |-> row.reorder_point, reorder_qty |-> row.reorder_qty,
     status |-> row.status]

\* One dict of the list get_signals returns.
SignalView(row, events) ==
    [signal_id |-> row.signal_id, created_ts |-> row.created_ts,
     item_id |-> row.item_id,
     current_qty |-> live_inventory(events, row.item_id),
     triggered_at_qty |-> row.triggered_at_qty,
     reorder_point |-> row.reorder_point, reorder_qty |-> row.reorder_qty,
     status |-> row.status]

\* get_signals: the lists the query can return.  rn = 1 per signal_id, the
\* optional status filter, ORDER BY created_ts DESC (rows of equal created_ts
\* in any order), LIMIT.
get_signals(rows, events, status, limit) ==
    LET Lists(f) ==
          LET ids == {f[x] : x \in {y \in DOMAIN f :
                                      status = "none" \/ rows[f[y]].status = status}}
              n == IF Cardinality(ids) < limit THEN Cardinality(ids) ELSE limit
          IN {[i \in 1..n |-> SignalView(rows[q[i]], events)] :
                q \in {o \in Orderings(ids) :
                         \A i, j \in 1..Cardinality(ids) :
                            i < j => rows[o[i]].created_ts >= rows[o[j]].created_ts}}
    IN UNION {Lists(f) : f \in LatestChoices(rows, 1..Len(rows))}

\* gen_random_uuid(): a signal_id no row carries yet.
NewSignalId(rows) == Cardinality({rows[i].signal_id : i \in 1..Len(rows)}) + 1

\* --------------------------------------------------------------- debounce
\* Mutant of debounce_rejects: the map read by item, not by raw string.
debounce_rejects_ByItem(cache, barcode_raw, t) ==
    \E b \in DOMAIN cache :
      /\ parse_barcode(b).ok
      /\ parse_barcode(barcode_raw).ok
      /\ parse_barcode(b).item_id = parse_barcode(barcode_raw).item_id
      /\ t - cache[b] < debounce_seconds

\* Mutant of debounce_rejects: the end of the window counted as inside it.
debounce_rejects_Inclusive(cache, barcode_raw, t) ==
    /\ barcode_raw \in DOMAIN cache
    /\ t - cache[barcode_raw] <= debounce_seconds

\* _check_debounce raises DuplicateScanError.
debounce_rejects(cache, barcode_raw, t) ==
    /\ barcode_raw \in DOMAIN cache
    /\ t - cache[barcode_raw] < debounce_seconds

\* Mutant of debounce_admit: the map rebuilt from the admitted scan alone.
debounce_admit_OnlyThis(cache, barcode_raw, t) == [b \in {barcode_raw} |-> t]

\* Mutant of debounce_admit: the scan recorded, nothing dropped.
debounce_admit_NoPrune(cache, barcode_raw, t) ==
    [b \in DOMAIN cache \cup {barcode_raw} |->
        IF b = barcode_raw THEN t ELSE cache[b]]

\* _check_debounce on admission: record the scan, drop entries not newer than
\* the cutoff.
debounce_admit(cache, barcode_raw, t) ==
    LET recorded == [b \in DOMAIN cache \cup {barcode_raw} |->
                        IF b = barcode_raw THEN t ELSE cache[b]]
        cutoff == t - prune_horizon_seconds
        kept == {b \in DOMAIN recorded : recorded[b] > cutoff}
    IN [b \in kept |-> recorded[b]]

\* Mutant of check_debounce: a rejected scan restarts the window.
check_debounce_Touch(cache, barcode_raw, t) ==
    IF debounce_rejects(cache, barcode_raw, t)
    THEN [raised |-> TRUE,
          last_scans |-> [b \in DOMAIN cache |->
                            IF b = barcode_raw THEN t ELSE cache[b]]]
    ELSE [raised |-> FALSE, last_scans |-> debounce_admit(cache, barcode_raw, t)]

\* Mutant of check_debounce: a rejected scan empties the map.
check_debounce_Clear(cache, barcode_raw, t) ==
    IF debounce_rejects(cache, barcode_raw, t)
    THEN [raised |-> TRUE, last_scans |-> [b \in {} |-> 0]]
    ELSE [raised |-> FALSE, last_scans |-> debounce_admit(cache, barcode_raw, t)]

\* _check_debounce: whether it raises, and the map it leaves.
check_debounce(cache, barcode_raw, t) ==
    IF debounce_rejects(cache, barcode_raw, t)
    THEN [raised |-> TRUE, last_scans |-> cache]
    ELSE [raised |-> FALSE, last_scans |-> debounce_admit(cache, barcode_raw, t)]

\* ----------------------------------------------------------------- writes
\* create_event: INSERT INTO scan_events ... RETURNING.
create_event(events, event_type, barcode_raw, item, qty, ts) ==
    Append(events,
           [event_id |-> Len(events) + 1, event_ts |-> ts,
            event_type |-> event_type, barcode_raw |-> barcode_raw,
            item_id |-> item, qty |-> qty])

\* Mutant of OpenRow: an earlier signal of the item is opened again.
OpenRow_Reopens(rows, item, current_qty, trigger_event_id, ts) ==
    [id |-> Len(rows) + 1,
     signal_id |-> IF RowsOfItem(rows, item) = {} THEN NewSignalId(rows)
                   ELSE rows[CHOOSE i \in RowsOfItem(rows, item) : TRUE].signal_id,
     created_ts |-> ts,
     item_id |-> item, triggered_at_qty |-> current_qty,
     reorder_point |-> reorder_point, reorder_qty |-> reorder_qty,
     trigger_event_id |-> trigger_event_id, status |-> "OPEN"]

\* Mutant of OpenRow: the threshold is stored in place of the quantity.
OpenRow_StoresThreshold(rows, item, current_qty, trigger_event_id, ts) ==
    [id |-> Len(rows) + 1, signal_id |-> NewSignalId(rows), created_ts |-> ts,
     item_id |-> item, triggered_at_qty |-> reorder_point,
     reorder_point |-> reorder_point, reorder_qty |-> reorder_qty,
     trigger_event_id |-> trigger_event_id, status |-> "OPEN"]

\* The INSERT of create_signal: a new logical signal, status OPEN.
OpenRow(rows, item, current_qty, trigger_event_id, ts) ==
    [id |-> Len(rows) + 1, signal_id |-> NewSignalId(rows), created_ts |-> ts,
     item_id |-> item, triggered_at_qty |-> current_qty,
     reorder_point |-> reorder_point, reorder_qty |-> reorder_qty,
     trigger_event_id |-> trigger_event_id, status |-> "OPEN"]

\* Mutant of StatusRow: the snapshot quantity is not copied forward.
StatusRow_DropsSnapshot(rows, existing, new_status, ts) ==
    [id |-> Len(rows) + 1, signal_id |-> existing.signal_id, created_ts |-> ts,
     item_id |-> existing.item_id,
     triggered_at_qty |-> 0,
     reorder_point |-> existing.reorder_point,
     reorder_qty |-> existing.reorder_qty,
     trigger_event_id |-> existing.trigger_event_id, status |-> new_status]

\* The INSERT of update_signal_status: the fetched row copied, new status.
StatusRow(rows, existing, new_status, ts) ==
    [id |-> Len(rows) + 1, signal_id |-> existing.signal_id, created_ts |-> ts,
     item_id |-> existing.item_id,
     triggered_at_qty |-> existing.triggered_at_qty,
     reorder_point |-> existing.reorder_point,
     reorder_qty |-> existing.reorder_qty,
     trigger_event_id |-> existing.trigger_event_id, status |-> new_status]

\* Mutant of FulfilledRow: the threshold is stored in place of the snapshot.
FulfilledRow_StoresThreshold(rows, sig, fulfill_event_id, ts) ==
    [id |-> Len(rows) + 1, signal_id |-> sig.signal_id, created_ts |-> ts,
     item_id |-> sig.item_id, triggered_at_qty |-> sig.reorder_point,
     reorder_point |-> sig.reorder_point, reorder_qty |-> sig.reorder_qty,
     trigger_event_id |-> fulfill_event_id, status |-> "FULFILLED"]

\* Mutant of FulfilledRow: the trigger of the signal is copied forward.
FulfilledRow_KeepsTrigger(rows, sig, fulfill_event_id, ts) ==
    [id |-> Len(rows) + 1, signal_id |-> sig.signal_id, created_ts |-> ts,
     item_id |-> sig.item_id, triggered_at_qty |-> sig.triggered_at_qty,
     reorder_point |-> sig.reorder_point, reorder_qty |-> sig.reorder_qty,
     trigger_event_id |-> sig.trigger_event_id, status |-> "FULFILLED"]

\* One INSERT of the loop of fulfill_open_signals.
FulfilledRow(rows, sig, fulfill_event_id, ts) ==
    [id |-> Len(rows) + 1, signal_id |-> sig.signal_id, created_ts |-> ts,
     item_id |-> sig.item_id, triggered_at_qty |-> sig.triggered_at_qty,
     reorder_point |-> sig.reorder_point, reorder_qty |-> sig.reorder_qty,
     trigger_event_id |-> fulfill_event_id, status |-> "FULFILLED"]

\* Mutant of InsertFulfilled: the loop stops after the first signal.
InsertFulfilled_FirstOnly(rows, sigs, fulfill_event_id, ts) ==
    IF sigs = <<>> THEN rows
    ELSE Append(rows,
                [id |-> Len(rows) + 1, signal_id |-> Head(sigs).signal_id,
                 created_ts |-> ts, item_id |-> Head(sigs).item_id,
                 triggered_at_qty |-> Head(sigs).triggered_at_qty,
                 reorder_point |-> Head(sigs).reorder_point,
                 reorder_qty |-> Head(sigs).reorder_qty,
                 trigger_event_id |-> fulfill_event_id, status |-> "FULFILLED"])

\* Mutant of InsertFulfilled: the selected rows are updated in place.
InsertFulfilled_InPlace(rows, sigs, fulfill_event_id, ts) ==
    [i \in 1..Len(rows) |->
        IF \E k \in 1..Len(sigs) : sigs[k].id = i
        THEN [rows[i] EXCEPT !.status = "FULFILLED"]
        ELSE rows[i]]

RECURSIVE InsertFulfilled(_, _, _, _)
\* for sig in open_signals: INSERT ... 'FULFILLED'
InsertFulfilled(rows, sigs, fulfill_event_id, ts) ==
    IF sigs = <<>> THEN rows
    ELSE InsertFulfilled(Append(rows, FulfilledRow(rows, Head(sigs), fulfill_event_id, ts)),
                         Tail(sigs), fulfill_event_id, ts)

\* A transaction that commits leaves the clock past its own start.
ClockAfter(ts) == IF db_now > ts THEN db_now ELSE ts + 1

\* Mutant of intake_fulfils: the reorder point itself counted as above it.
intake_fulfils_AtThreshold(on_hand_qty) == on_hand_qty >= reorder_point

\* create_intake_event: if on_hand_qty > self._settings.reorder_point
intake_fulfils(on_hand_qty) == on_hand_qty > reorder_point

\* create_consume_event: if on_hand_qty <= self._settings.reorder_point
consume_triggers(on_hand_qty) == on_hand_qty <= reorder_point

\* ---------------------------------------------------------------- actions
Return(p, r) ==
    /\ ret' = [r EXCEPT !.proc = p]
    /\ pc' = [pc EXCEPT ![p] = "idle"]
    /\ req' = [req EXCEPT ![p] = NoReq]

\* create_intake_event / create_consume_event up to db.create_event:
\* _check_debounce, parse_barcode, then the INSERT into scan_events.
ScanStart(p, barcode_raw, event_type) ==
    /\ pc[p] = "idle"
    /\ UNCHANGED <<now, replenishment_signals>>
    /\ last_scans' = [last_scans EXCEPT
                        ![p] = check_debounce(@, barcode_raw, now).last_scans]
    /\ IF check_debounce(last_scans[p], barcode_raw, now).raised
       THEN /\ Return(p, [NoRet EXCEPT !.op = event_type, !.status = "DuplicateScan"])
            /\ UNCHANGED <<scan_events, db_now>>
       ELSE /\ LET parsed == parse_barcode(barcode_raw) IN
               IF ~parsed.ok
               THEN /\ Return(p, [NoRet EXCEPT !.op = event_type,
                                               !.status = "BarcodeParseError"])
                    /\ UNCHANGED <<scan_events, db_now>>
               ELSE /\ Len(scan_events) < MaxEvents
                    /\ scan_events' = create_event(scan_events, event_type, barcode_raw,
                                                   parsed.item_id, parsed.qty, db_now)
                    /\ db_now' = db_now + 1
                    /\ pc' = [pc EXCEPT ![p] = "get_on_hand"]
                    /\ req' = [req EXCEPT ![p] =
                                 [NoReq EXCEPT !.op = event_type,
                                               !.item_id = parsed.item_id,
                                               !.event_id = Len(scan_events) + 1]]
                    /\ UNCHANGED ret

create_intake_event(p, barcode_raw) == ScanStart(p, barcode_raw, "INTAKE")

create_consume_event(p, barcode_raw) == ScanStart(p, barcode_raw, "CONSUME")

\* The consume requests for p's item that, like p, have read an on-hand
\* quantity at or below the reorder point and not yet written their signal.
Racers(p) ==
    {q \in Procs \ {p} :
        /\ req[q].op = "CONSUME"
        /\ req[q].item_id = req[p].item_id
        /\ pc[q] \in {"has_open_signal", "insert_signal"}}

\* on_hand_qty = self.db.get_on_hand_qty(parsed.item_id), and the test on
\* reorder_point that follows it.
GetOnHand(p) ==
    /\ pc[p] = "get_on_hand"
    /\ UNCHANGED <<scan_events, replenishment_signals, db_now, now, last_scans>>
    /\ LET on_hand_qty == get_on_hand_qty(scan_events, req[p].item_id)
           done == [NoRet EXCEPT !.op = req[p].op, !.status = "ok",
                                 !.event_id = req[p].event_id,
                                 !.on_hand_qty = on_hand_qty]
       IN IF req[p].op = "CONSUME"
          THEN IF consume_triggers(on_hand_qty)
               THEN /\ pc' = [pc EXCEPT ![p] = "has_open_signal"]
                    /\ req' = [q \in Procs |->
                                 IF q = p
                                 THEN [req[p] EXCEPT !.on_hand_qty = on_hand_qty,
                                                     !.raced = Racers(p) # {}]
                                 ELSE IF q \in Racers(p)
                                      THEN [req[q] EXCEPT !.raced = TRUE]
                                      ELSE req[q]]
                    /\ UNCHANGED ret
               ELSE Return(p, done)
          ELSE IF intake_fulfils(on_hand_qty)
               THEN /\ pc' = [pc EXCEPT ![p] = "fulfill_select"]
                    /\ req' = [req EXCEPT ![p].on_hand_qty = on_hand_qty]
                    /\ UNCHANGED ret
               ELSE Return(p, done)

Done(p) ==
    [NoRet EXCEPT !.op = req[p].op, !.status = "ok", !.event_id = req[p].event_id,
                  !.on_hand_qty = req[p].on_hand_qty]

\* create_signal, first transaction: if self.has_open_signal(item_id): return None
HasOpenSignal(p) ==
    /\ pc[p] = "has_open_signal"
    /\ UNCHANGED <<scan_events, replenishment_signals, db_now, now, last_scans>>
    /\ \E answer \in has_open_signal(replenishment_signals, req[p].item_id) :
         IF answer
         THEN Return(p, Done(p))
         ELSE /\ pc' = [pc EXCEPT ![p] = "insert_signal"]
              /\ UNCHANGED <<req, ret>>

\* create_signal, second transaction: the INSERT of the OPEN row.
InsertSignal(p) ==
    /\ pc[p] = "insert_signal"
    /\ UNCHANGED <<scan_events, now, last_scans>>
    /\ LET row == OpenRow(replenishment_signals, req[p].item_id, req[p].on_hand_qty,
                          req[p].event_id, db_now)
       IN /\ replenishment_signals' = Append(replenishment_signals, row)
          /\ db_now' = db_now + 1
          /\ Return(p, [Done(p) EXCEPT !.signal = <<row>>])

\* fulfill_open_signals, the SELECT that opens its transaction.
FulfillSelect(p) ==
    /\ pc[p] = "fulfill_select"
    /\ UNCHANGED <<scan_events, replenishment_signals, now, last_scans>>
    /\ \E S \in fulfill_select(replenishment_signals, req[p].item_id) :
         IF S = {}
         THEN /\ Return(p, Done(p))
              /\ UNCHANGED db_now
         ELSE \E order \in Orderings(S), d \in {0, 1} :
                /\ req' = [req EXCEPT
                             ![p].selected = [i \in 1..Cardinality(S) |->
                                                replenishment_signals[order[i]]],
                             ![p].txn_ts = db_now]
                /\ db_now' = db_now + d
                /\ pc' = [pc EXCEPT ![p] = "fulfill_insert"]
                /\ UNCHANGED ret

\* fulfill_open_signals, the INSERT loop and the commit.
FulfillInsert(p) ==
    /\ pc[p] = "fulfill_insert"
    /\ UNCHANGED <<scan_events, now, last_scans>>
    /\ replenishment_signals' =
         InsertFulfilled(replenishment_signals, req[p].selected, req[p].event_id,
                         req[p].txn_ts)
    /\ db_now' = ClockAfter(req[p].txn_ts)
    /\ Return(p, Done(p))

AcksWritten ==
    Cardinality({i \in 1..Len(replenishment_signals) :
                   replenishment_signals[i].status = "ACKNOWLEDGED"})
      + Cardinality({q \in Procs : pc[q] = "ack_insert"})

\* acknowledge_signal: update_signal_status(signal_id, "ACKNOWLEDGED"), the
\* SELECT that opens its transaction; no row: 404.
AcknowledgeSelect(p, signal_id) ==
    /\ pc[p] = "idle"
    /\ UNCHANGED <<scan_events, replenishment_signals, now, last_scans>>
    /\ IF update_select(replenishment_signals, signal_id) = {}
       THEN /\ Return(p, [NoRet EXCEPT !.op = "ACKNOWLEDGE", !.status = "NotFound"])
            /\ UNCHANGED db_now
       ELSE /\ AcksWritten < MaxAcks
            /\ \E i \in update_select(replenishment_signals, signal_id), d \in {0, 1} :
                 /\ req' = [req EXCEPT
                              ![p] = [NoReq EXCEPT
                                        !.op = "ACKNOWLEDGE",
                                        !.signal_id = signal_id,
                                        !.item_id = replenishment_signals[i].item_id,
                                        !.selected = <<replenishment_signals[i]>>,
                                        !.txn_ts = db_now]]
                 /\ db_now' = db_now + d
                 /\ pc' = [pc EXCEPT ![p] = "ack_insert"]
                 /\ UNCHANGED ret

\* update_signal_status: the INSERT of the new row, the live quantity, commit.
AcknowledgeInsert(p) ==
    /\ pc[p] = "ack_insert"
    /\ UNCHANGED <<scan_events, now, last_scans>>
    /\ LET row == StatusRow(replenishment_signals, req[p].selected[1],
                            "ACKNOWLEDGED", req[p].txn_ts)
       IN /\ replenishment_signals' = Append(replenishment_signals, row)
          /\ db_now' = ClockAfter(req[p].txn_ts)
          /\ Return(p, [NoRet EXCEPT
                          !.op = "ACKNOWLEDGE", !.status = "ok",
                          !.on_hand_qty = SumQty(scan_events, row.item_id, "INTAKE")
                                            - SumQty(scan_events, row.item_id, "CONSUME"),
                          !.signal = <<row>>])

\* The program points of a scan request after its event is committed, each
\* at the start of a database transaction.
AfterEvent ==
    {"get_on_hand", "has_open_signal", "insert_signal", "fulfill_select",
     "fulfill_insert"}

\* A database call raises (connection, statement or commit error): session()
\* rolls its own transaction back and re-raises; neither the service nor the
\* handler catches it, so the request ends with an error response.
StoreFails(p) ==
    /\ pc[p] \in AfterEvent
    /\ UNCHANGED <<scan_events, replenishment_signals, db_now, now, last_scans>>
    /\ Return(p, [NoRet EXCEPT !.op = req[p].op, !.status = "PersistenceError"])

\* Mutant of CreateEventFails: the failed scan leaves no timestamp.
CreateEventFails_Unrecorded(p, barcode_raw, event_type) ==
    /\ pc[p] = "idle"
    /\ ~check_debounce(last_scans[p], barcode_raw, now).raised
    /\ parse_barcode(barcode_raw).ok
    /\ UNCHANGED <<last_scans, scan_events, replenishment_signals, db_now, now>>
    /\ Return(p, [NoRet EXCEPT !.op = event_type, !.status = "PersistenceError"])

\* db.create_event raises: the debounce map already holds the scan, no event
\* is committed.
CreateEventFails(p, barcode_raw, event_type) ==
    /\ pc[p] = "idle"
    /\ ~check_debounce(last_scans[p], barcode_raw, now).raised
    /\ parse_barcode(barcode_raw).ok
    /\ last_scans' = [last_scans EXCEPT
                        ![p] = check_debounce(@, barcode_raw, now).last_scans]
    /\ UNCHANGED <<scan_events, replenishment_signals, db_now, now>>
    /\ Return(p, [NoRet EXCEPT !.op = event_type, !.status = "PersistenceError"])

\* ------------------------------------------------------------ bulk intake
DigitChar(d) ==
    CASE d = 0 -> "0" [] d = 1 -> "1" [] d = 2 -> "2" [] d = 3 -> "3"
      [] d = 4 -> "4" [] d = 5 -> "5" [] d = 6 -> "6" [] d = 7 -> "7"
      [] d = 8 -> "8" [] d = 9 -> "9"

RECURSIVE FormatInt(_)
\* f"{item.qty}" of a positive int: its decimal digits.
FormatInt(n) ==
    IF n < 10 THEN <<DigitChar(n)>>
    ELSE FormatInt(n \div 10) \o <<DigitChar(n % 10)>>

\* barcode_raw = f"ITEM={item.item_id};QTY={item.qty}"
synthetic_barcode(item) ==
    ItemPrefix \o item.item_id \o QtyPrefix \o FormatInt(item.qty)

\* BulkIntakeItem: item_id any string (the empty one included), qty >= 1.
BulkItemIds == {<<"A">>, <<>>}
BulkQtys == {3, 12}
BulkItems == [item_id : BulkItemIds, qty : BulkQtys]

\* BulkIntakeRequest.items: the lists the event bound leaves room for.
BulkRequests == UNION {[1..n -> BulkItems] : n \in 1..MaxEvents}

RECURSIVE SumOfQty(_)
\* total_qty = sum(e.qty for e in events)
SumOfQty(events) ==
    IF events = <<>> THEN 0 ELSE Head(events).qty + SumOfQty(Tail(events))

\* service.create_intake_event for one line of the request, run to its end:
\* the states it can leave.  st.raised: an exception left the loop.
bulk_item(st, item, t) ==
    LET barcode_raw == synthetic_barcode(item)
        chk == check_debounce(st.last_scans, barcode_raw, t)
        parsed == parse_barcode(barcode_raw)
        events == create_event(st.scan_events, "INTAKE", barcode_raw,
                               parsed.item_id, parsed.qty, st.db_now)
        on_hand_qty == get_on_hand_qty(events, parsed.item_id)
        response == [event_id |-> Len(events), item_id |-> parsed.item_id,
                     qty |-> parsed.qty, on_hand_qty |-> on_hand_qty]
        appended == [st EXCEPT !.last_scans = chk.last_scans,
                               !.scan_events = events,
                               !.db_now = st.db_now + 1,
                               !.events = Append(st.events, response)]
    IN IF chk.raised THEN {st}
       ELSE IF ~parsed.ok
       THEN {[st EXCEPT !.last_scans = chk.last_scans, !.raised = TRUE]}
       ELSE IF ~intake_fulfils(on_hand_qty) THEN {appended}
       ELSE UNION {
              IF S = {} THEN {appended}
              ELSE {[appended EXCEPT
                       !.replenishment_signals =
                          InsertFulfilled(st.replenishment_signals,
                                          [i \in 1..Cardinality(S) |->
                                             st.replenishment_signals[order[i]]],
                                          Len(events), appended.db_now),
                       !.db_now = appended.db_now + 1] : order \in Orderings(S)}
              : S \in fulfill_select(st.replenishment_signals, parsed.item_id)}

RECURSIVE bulk_loop(_, _, _)
\* for item in request.items: try ... except DuplicateScanError: continue
bulk_loop(st, items, t) ==
    IF items = <<>> \/ st.raised THEN {st}
    ELSE UNION {bulk_loop(next, Tail(items), t) : next \in bulk_item(st, Head(items), t)}

\* create_bulk_intake: the handler from its first line to its response; no
\* other request of the instance runs in between.
BulkIntake(p, items) ==
    /\ pc[p] = "idle"
    /\ Len(scan_events) + Len(items) <= MaxEvents
    /\ UNCHANGED now
    /\ \E st \in bulk_loop([scan_events |-> scan_events,
                            replenishment_signals |-> replenishment_signals,
                            db_now |-> db_now, last_scans |-> last_scans[p],
                            events |-> <<>>, raised |-> FALSE], items, now) :
         /\ scan_events' = st.scan_events
         /\ replenishment_signals' = st.replenishment_signals
         /\ db_now' = st.db_now
         /\ last_scans' = [last_scans EXCEPT ![p] = st.last_scans]
         /\ IF st.raised
            THEN Return(p, [NoRet EXCEPT !.op = "BULK_INTAKE",
                                         !.status = "BarcodeParseError"])
            ELSE Return(p, [NoRet EXCEPT !.op = "BULK_INTAKE", !.status = "ok",
                                         !.events = st.events,
                                         !.total_items = Len(st.events),
                                         !.total_qty = SumOfQty(st.events)])

\* Time passes: one second.
TickSecond ==
    /\ now < MaxTime
    /\ now' = now + 1
    /\ UNCHANGED <<scan_events, replenishment_signals, db_now, last_scans, pc, req, ret>>

StatusFilters == {"none", "OPEN", "ACKNOWLEDGED", "FULFILLED"}
Limits == {1, default_limit}

\* list_signals: db.get_signals(status, limit), one read-only transaction.
ListSignals(p, status, limit) ==
    /\ pc[p] = "idle"
    /\ UNCHANGED <<scan_events, replenishment_signals, db_now, now, last_scans>>
    /\ \E signals \in get_signals(replenishment_signals, scan_events, status, limit) :
         Return(p, [NoRet EXCEPT !.op = "LIST", !.status = "ok", !.signal = signals])

\* Time passes: one debounce window.
Tick ==
    /\ now + debounce_seconds <= MaxTime
    /\ now' = now + debounce_seconds
    /\ UNCHANGED <<scan_events, replenishment_signals, db_now, last_scans, pc, req, ret>>

Step(p, scanned) ==
    \/ \E b \in scanned : create_intake_event(p, b)
    \/ \E b \in scanned : create_consume_event(p, b)
    \/ GetOnHand(p)
    \/ HasOpenSignal(p)
    \/ InsertSignal(p)
    \/ FulfillSelect(p)
    \/ FulfillInsert(p)
    \/ \E sid \in 1..NewSignalId(replenishment_signals) : AcknowledgeSelect(p, sid)
    \/ AcknowledgeInsert(p)

\* Service instances sharing the database, their transactions interleaved.
Next == (\E p \in Procs : Step(p, BarcodesOfA)) \/ Tick

Spec == Init /\ [][Next]_vars

\* One service instance: its event loop runs one request handler at a time.
NextSeq == Step(1, Barcodes) \/ Tick

SpecSeq == Init /\ [][NextSeq]_vars

\* One service instance, the clock read to the second.
NextClock == Step(1, Barcodes) \/ TickSecond

SpecClock == Init /\ [][NextClock]_vars

\* One service instance, scanning one item, whose database calls can fail.
NextFail ==
    \/ Step(1, BarcodesOfA)
    \/ Tick
    \/ StoreFails(1)
    \/ \E b \in BarcodesOfA, t \in {"INTAKE", "CONSUME"} : CreateEventFails(1, b, t)

SpecFail == Init /\ [][NextFail]_vars

\* Time passes: one second short of the prune horizon.
TickHorizon ==
    /\ now <= MaxTime
    /\ now' = now + prune_horizon_seconds - 1
    /\ UNCHANGED <<scan_events, replenishment_signals, db_now, last_scans, pc, req, ret>>

\* Time passes: one second, after the long pause.
TickSecondLater ==
    /\ now >= prune_horizon_seconds - 1
    /\ now < prune_horizon_seconds - 1 + MaxTime
    /\ now' = now + 1
    /\ UNCHANGED <<scan_events, replenishment_signals, db_now, last_scans, pc, req, ret>>

\* One service instance left idle for about a minute between scans.
NextPrune == Step(1, PruneBarcodes) \/ TickSecond \/ TickHorizon \/ TickSecondLater

SpecPrune == Init /\ [][NextPrune]_vars

\* An INSERT of fulfill_open_signals, or its commit, raises: session() rolls
\* the transaction back, rows already inserted in it included, and re-raises.
FulfillFails(p) ==
    /\ pc[p] = "fulfill_insert"
    /\ StoreFails(p)

\* The instances sharing the database, deliveries large enough to fulfil the
\* signals of racing consumes, and fulfil transactions that can fail.
NextAtomic ==
    \/ \E p \in Procs : Step(p, AtomicBarcodes)
    \/ Tick
    \/ \E p \in Procs : FulfillFails(p)

SpecAtomic == Init /\ [][NextAtomic]_vars

\* One service instance, the clock read to the second, scans that fail at
\* the parser or at the event INSERT.
NextRepeat ==
    \/ Step(1, RepeatBarcodes)
    \/ TickSecond
    \/ \E b \in RepeatBarcodes, t \in {"INTAKE", "CONSUME"} : CreateEventFails(1, b, t)

SpecRepeat == Init /\ [][NextRepeat]_vars

\* One service instance taking single scans of item A and packing slips.
NextBulk ==
    \/ Step(1, BarcodesOfA)
    \/ Tick
    \/ \E items \in BulkRequests : BulkIntake(1, items)

SpecBulk == Init /\ [][NextBulk]_vars

\* One service instance scanning well-formed and malformed strings.
NextParse == Step(1, ParserBarcodes) \/ Tick

SpecParse == Init /\ [][NextParse]_vars

\* One service instance scanning quantities that meet the reorder point.
NextThreshold == Step(1, ThresholdBarcodes) \/ Tick

SpecThreshold == Init /\ [][NextThreshold]_vars

\* One service instance that also serves GET /api/signals.
NextList ==
    \/ NextSeq
    \/ \E status \in StatusFilters, limit \in Limits : ListSignals(1, status, limit)

SpecList == Init /\ [][NextList]_vars

\* The instances sharing the database, one of them also serving
\* GET /api/signals with and without a status filter.
NextConcList ==
    \/ Next
    \/ \E status \in StatusFilters : ListSignals(1, status, default_limit)

SpecConcList == Init /\ [][NextConcList]_vars

\* ------------------------------------------------- definitions of the claims
\* The items the barcodes name.
Items == {parse_barcode(b).item_id : b \in {x \in Barcodes : parse_barcode(x).ok}}

SignalIds(rows) == {rows[i].signal_id : i \in 1..Len(rows)}

\* The current state of a logical signal: its row of greatest created_ts, the
\* greatest row id deciding between rows of equal created_ts.
CurrentRow(rows, sid) ==
    CHOOSE i \in RowsOfSignal(rows, sid) :
        \A j \in RowsOfSignal(rows, sid) :
            \/ rows[j].created_ts < rows[i].created_ts
            \/ rows[j].created_ts = rows[i].created_ts /\ j <= i

CurrentStatus(rows, sid) == rows[CurrentRow(rows, sid)].status

SignalsInState(rows, item, statuses) ==
    {sid \in SignalIds(rows) :
        /\ rows[CurrentRow(rows, sid)].item_id = item
        /\ CurrentStatus(rows, sid) \in statuses}

OpenSignals(rows, item) == SignalsInState(rows, item, {"OPEN"})

\* Instance p's request returns in this step.
Returns(p) == pc[p] # "idle" /\ pc'[p] = "idle"

RECURSIVE SetSum(_, _)
SetSum(f, S) ==
    IF S = {} THEN 0
    ELSE LET x == CHOOSE y \in S : TRUE IN f[x] + SetSum(f, S \ {x})

\* Sum of qty over the item's events of one type.
LedgerSum(events, item, t) ==
    SetSum([i \in 1..Len(events) |-> events[i].qty],
           {i \in 1..Len(events) :
               events[i].item_id = item /\ events[i].event_type = t})

\* C1: in every reachable state each item has at most one logical signal
\* whose current state is OPEN.
C1_AtMostOneOpenPerItem ==
    \A item \in Items : Cardinality(OpenSignals(replenishment_signals, item)) <= 1

\* C2: when the last of several consume requests that raced for one item
\* (each read an on-hand quantity at or below the reorder point before any of
\* them wrote its signal) returns, exactly one signal of the item is OPEN.
C2_ExactlyOneOpenAfterRace ==
    [][\A p \in Procs :
         (/\ Returns(p)
          /\ req[p].raced
          /\ \A q \in Procs \ {p} : ~req[q].raced)
         => Cardinality(OpenSignals(replenishment_signals', req[p].item_id)) = 1]_vars

\* C3: after every accepted event the on-hand quantity the ledger reports for
\* an item is the sum of its INTAKE quantities minus the sum of its CONSUME
\* quantities (0 for an item without events).
C3_OnHandIsIntakeMinusConsume ==
    \A item \in Items :
        /\ get_on_hand_qty(scan_events, item)
             = LedgerSum(scan_events, item, "INTAKE")
                 - LedgerSum(scan_events, item, "CONSUME")
        /\ get_inventory_item(scan_events, item).present
             => get_inventory_item(scan_events, item).on_hand_qty
                  = LedgerSum(scan_events, item, "INTAKE")
                      - LedgerSum(scan_events, item, "CONSUME")

C3_Witness ==
    \E item \in Items :
        /\ LedgerSum(scan_events, item, "INTAKE") > 0
        /\ LedgerSum(scan_events, item, "CONSUME") > 0
        /\ get_on_hand_qty(scan_events, item) # 0
        /\ Len(scan_events) = 3

C5_ConsumeLeavesSignals ==
    [][\A p \in Procs :
         LET item == req[p].item_id
             on_hand == get_on_hand_qty(scan_events, item)
             rows == replenishment_signals
         IN /\ (pc[p] = "idle" /\ req'[p].op = "CONSUME")
               => /\ Len(scan_events') = Len(scan_events) + 1
                  /\ scan_events'[req'[p].event_id].event_type = "CONSUME"
                  /\ replenishment_signals' = rows
            /\ (/\ req[p].op = "CONSUME"
                /\ Returns(p)
                /\ (OpenSignals(rows, item) # {} \/ on_hand > reorder_point))
               => /\ replenishment_signals' = rows
                  /\ scan_events' = scan_events
                  /\ scan_events[req[p].event_id].event_type = "CONSUME"
                  /\ ret'.op = "CONSUME"
                  /\ ret'.status = "ok"
                  /\ ret'.event_id = req[p].event_id
                  /\ ret'.on_hand_qty = on_hand
                  /\ ret'.signal = <<>>]_vars

C5_Witness ==
    /\ ret.op = "CONSUME"
    /\ ret.status = "ok"
    /\ ret.signal = <<>>
    /\ ret.on_hand_qty <= reorder_point
    /\ OpenSignals(replenishment_signals, scan_events[ret.event_id].item_id) # {}

\* C6: once an intake that leaves on-hand strictly above reorder_point has
\* returned, no logical signal of its item has current state OPEN, and no
\* ranking of the latest rows shows an OPEN row of the item.
C6_IntakeAboveReorderLeavesNoOpen ==
    (ret.op = "INTAKE" /\ ret.status = "ok" /\ ret.on_hand_qty > reorder_point)
    => LET item == scan_events[ret.event_id].item_id
           rows == replenishment_signals
       IN /\ OpenSignals(rows, item) = {}
          /\ \A f \in LatestChoices(rows, 1..Len(rows)) :
               \A sid \in DOMAIN f :
                 ~(rows[f[sid]].item_id = item /\ rows[f[sid]].status = "OPEN")

C6_Witness ==
    /\ ret.op = "INTAKE"
    /\ ret.status = "ok"
    /\ ret.on_hand_qty > reorder_point
    /\ \E i \in 1..Len(replenishment_signals) :
         /\ replenishment_signals[i].status = "FULFILLED"
         /\ replenishment_signals[i].trigger_event_id = ret.event_id

\* C7: once an intake that leaves on-hand strictly above reorder_point has
\* returned, no signal of its item is left in current state OPEN or
\* ACKNOWLEDGED.
C7_IntakeFulfilsOpenAndAcknowledged ==
    (ret.op = "INTAKE" /\ ret.status = "ok" /\ ret.on_hand_qty > reorder_point)
    => SignalsInState(replenishment_signals, scan_events[ret.event_id].item_id,
                      {"OPEN", "ACKNOWLEDGED"}) = {}

\* C8: a logical signal whose current state is FULFILLED is FULFILLED after
\* every step.
C8_FulfilledIsTerminal ==
    [][\A sid \in SignalIds(replenishment_signals) :
         CurrentStatus(replenishment_signals, sid) = "FULFILLED"
         => CurrentStatus(replenishment_signals', sid) = "FULFILLED"]_vars

\* C9: an acknowledge of a signal whose current state is not OPEN returns
\* NotFound and appends no row.
C9_AcknowledgeNeedsOpen ==
    [][\A p \in Procs :
         (/\ req[p].op = "ACKNOWLEDGE"
          /\ Returns(p)
          /\ CurrentStatus(replenishment_signals, req[p].signal_id) # "OPEN")
         => /\ ret'.status = "NotFound"
            /\ replenishment_signals' = replenishment_signals]_vars

\* C10: an acknowledge of a signal_id no row carries returns NotFound and
\* leaves the signal table and the event table as they were.
C10_AcknowledgeUnknownSignal ==
    [][\A p \in Procs :
         \A sid \in 1..NewSignalId(replenishment_signals) :
           (/\ AcknowledgeSelect(p, sid)
            /\ RowsOfSignal(replenishment_signals, sid) = {})
           => /\ ret'.op = "ACKNOWLEDGE"
              /\ ret'.status = "NotFound"
              /\ pc'[p] = "idle"
              /\ replenishment_signals' = replenishment_signals
              /\ scan_events' = scan_events]_vars

C10_Witness ==
    /\ ret.op = "ACKNOWLEDGE"
    /\ ret.status = "NotFound"
    /\ replenishment_signals # <<>>
    /\ scan_events # <<>>

\* C11: an acknowledge of a signal whose current state is OPEN appends exactly
\* one row: same signal_id, status ACKNOWLEDGED, and item_id, triggered_at_qty,
\* reorder_point, reorder_qty and trigger_event_id those of the signal's prior
\* current row; afterwards the signal's current state is ACKNOWLEDGED.
C11_AcknowledgeCopiesForward ==
    [][\A p \in Procs :
         (/\ pc[p] = "ack_insert"
          /\ Returns(p)
          /\ CurrentStatus(replenishment_signals, req[p].signal_id) = "OPEN")
         => LET rows == replenishment_signals
                prior == rows[CurrentRow(rows, req[p].signal_id)]
                new == replenishment_signals'[Len(rows) + 1]
            IN /\ Len(replenishment_signals') = Len(rows) + 1
               /\ SubSeq(replenishment_signals', 1, Len(rows)) = rows
               /\ new.signal_id = req[p].signal_id
               /\ new.status = "ACKNOWLEDGED"
               /\ new.item_id = prior.item_id
               /\ new.triggered_at_qty = prior.triggered_at_qty
               /\ new.reorder_point = prior.reorder_point
               /\ new.reorder_qty = prior.reorder_qty
               /\ new.trigger_event_id = prior.trigger_event_id
               /\ CurrentStatus(replenishment_signals', req[p].signal_id)
                    = "ACKNOWLEDGED"
               /\ ret'.status = "ok"]_vars

C11_Witness ==
    /\ ret.op = "ACKNOWLEDGE"
    /\ ret.status = "ok"
    /\ LET r == ret.signal[1]
       IN /\ r.id = Len(replenishment_signals)
          /\ r.triggered_at_qty # 0
          /\ \E k \in RowsOfSignal(replenishment_signals, r.signal_id) :
               /\ replenishment_signals[k].status = "OPEN"
               /\ RowsOfSignal(replenishment_signals, r.signal_id) = {k, r.id}

\* C12: get_signals returns at most one row per signal_id, each the row of
\* its signal with the greatest created_ts, the greatest row id deciding
\* between rows of equal created_ts; unfiltered and with a limit that does not
\* cut the list, it returns a row for every signal_id.
C12_ListReturnsCurrentRows ==
    [][\A p \in Procs : \A status \in StatusFilters : \A limit \in Limits :
         ListSignals(p, status, limit)
         => LET rows == replenishment_signals
                out == ret'.signal
            IN /\ \A i, j \in 1..Len(out) :
                    i # j => out[i].signal_id # out[j].signal_id
               /\ \A i \in 1..Len(out) :
                    out[i] = SignalView(rows[CurrentRow(rows, out[i].signal_id)],
                                        scan_events)
               /\ (status = "none" /\ limit >= Cardinality(SignalIds(rows)))
                    => {out[i].signal_id : i \in 1..Len(out)} = SignalIds(rows)]_vars

EventTypes == {"INTAKE", "CONSUME"}

\* C13: a scan of a raw barcode that arrives less than debounce_seconds after
\* the stored (last admitted) scan of that string is rejected with
\* DuplicateScan and appends no event; one that arrives with no stored scan,
\* or debounce_seconds or more after it, is admitted: its time is recorded
\* and, its barcode being well formed, its event appended.
C13_DebounceWindow ==
    [][\A p \in Procs : \A b \in Barcodes : \A t \in EventTypes :
         ScanStart(p, b, t)
         => IF b \in DOMAIN last_scans[p] /\ now - last_scans[p][b] < debounce_seconds
            THEN /\ ret' = [NoRet EXCEPT !.proc = p, !.op = t,
                                         !.status = "DuplicateScan"]
                 /\ pc'[p] = "idle"
                 /\ scan_events' = scan_events
            ELSE /\ b \in DOMAIN last_scans'[p]
                 /\ last_scans'[p][b] = now
                 /\ IF parse_barcode(b).ok
                    THEN /\ Len(scan_events') = Len(scan_events) + 1
                         /\ scan_events'[Len(scan_events')].barcode_raw = b
                         /\ pc'[p] = "get_on_hand"
                    ELSE /\ ret'.status = "BarcodeParseError"
                         /\ scan_events' = scan_events]_vars

\* Two events of one raw barcode: the second was admitted when exactly
\* debounce_seconds had passed; and a scan has been rejected.
C13_Witness ==
    /\ \E i, j \in 1..Len(scan_events) :
         /\ i < j
         /\ scan_events[i].barcode_raw = scan_events[j].barcode_raw
         /\ scan_events[j].barcode_raw \in DOMAIN last_scans[1]
         /\ last_scans[1][scan_events[j].barcode_raw] = debounce_seconds
    /\ ret.status = "DuplicateScan"

\* C14: a rejected scan leaves the stored timestamp of its barcode as it was,
\* and a scan arriving debounce_seconds or more after the stored timestamp is
\* not rejected, however many scans were rejected in between.
C14_RejectionKeepsTimestamp ==
    [][\A p \in Procs : \A b \in Barcodes : \A t \in EventTypes :
         ScanStart(p, b, t)
         => /\ (ret'.status = "DuplicateScan" /\ pc'[p] = "idle")
                 => /\ b \in DOMAIN last_scans'[p]
                    /\ last_scans'[p][b] = last_scans[p][b]
            /\ (b \in DOMAIN last_scans[p]
                  /\ now >= last_scans[p][b] + debounce_seconds)
                 => last_scans'[p][b] = now]_vars

\* A scan was rejected and the stored admission is one or two seconds old.
C14_Witness ==
    /\ ret.status = "DuplicateScan"
    /\ ret.proc = 1
    /\ \E b \in DOMAIN last_scans[1] :
         /\ now - last_scans[1][b] > 0
         /\ now - last_scans[1][b] < debounce_seconds

\* C15: a scan rejected by the debounce filter changes neither the event
\* table, nor the signal table, nor the debounce map of any instance.
C15_RejectionMutatesNothing ==
    [][\A p \in Procs : \A b \in Barcodes : \A t \in EventTypes :
         (ScanStart(p, b, t) /\ debounce_rejects(last_scans[p], b, now))
         => /\ scan_events' = scan_events
            /\ replenishment_signals' = replenishment_signals
            /\ last_scans' = last_scans
            /\ db_now' = db_now
            /\ ret'.status = "DuplicateScan"]_vars

\* A rejection with events, signals and a second barcode in the map.
C15_Witness ==
    /\ ret.status = "DuplicateScan"
    /\ scan_events # <<>>
    /\ replenishment_signals # <<>>
    /\ Cardinality(DOMAIN last_scans[1]) >= 2

C17_RowsNotBackdated ==
    \A i, j \in 1..Len(replenishment_signals) :
       (/\ i < j
        /\ replenishment_signals[i].signal_id = replenishment_signals[j].signal_id)
       => replenishment_signals[i].created_ts <= replenishment_signals[j].created_ts

\* C18: when an intake or consume request ends with a persistence error, the
\* event table holds no event of that request: it is as it was before it.
C18_FailureLeavesNoEvent ==
    [][\A p \in Procs :
         (/\ pc[p] \in AfterEvent \/ pc[p] = "idle"
          /\ pc'[p] = "idle"
          /\ ret'.proc = p
          /\ ret'.status = "PersistenceError"
          /\ ret'.op \in EventTypes)
         => \A i \in 1..Len(scan_events') :
               scan_events'[i].event_id # req[p].event_id]_vars

\* C19: the on-hand quantity an intake or consume returns is the item's
\* on-hand quantity before the request's own event, plus qty for an intake
\* and minus qty for a consume.
C19_ReturnedOnHandCountsOwnEvent ==
    [][\A p \in Procs :
         (/\ Returns(p)
          /\ req[p].op \in EventTypes
          /\ ret'.status = "ok")
         => LET e == scan_events[req[p].event_id]
                before == SubSeq(scan_events, 1, req[p].event_id - 1)
                previous == LedgerSum(before, e.item_id, "INTAKE")
                              - LedgerSum(before, e.item_id, "CONSUME")
            IN /\ ret'.event_id = e.event_id
               /\ ret'.op = e.event_type
               /\ ret'.on_hand_qty =
                    IF e.event_type = "INTAKE" THEN previous + e.qty
                    ELSE previous - e.qty]_vars

\* The third event, of an item with earlier events, returned a quantity that
\* is not its own qty.
C19_Witness ==
    /\ ret.op \in EventTypes
    /\ ret.status = "ok"
    /\ ret.event_id = 3
    /\ \E i \in 1..2 : scan_events[i].item_id = scan_events[3].item_id
    /\ ret.on_hand_qty # scan_events[3].qty
    /\ ret.on_hand_qty # 0 - scan_events[3].qty

\* C20: every row get_signals returns carries as current_qty the item's
\* on-hand quantity at the time of the read (0 for an item without events)
\* and as triggered_at_qty the quantity stored in the signal's row; no step
\* changes the triggered_at_qty of a row already written.
C20_ListShowsLiveQuantity ==
    [][/\ \A p \in Procs : \A status \in StatusFilters : \A limit \in Limits :
            ListSignals(p, status, limit)
            => \A i \in 1..Len(ret'.signal) :
                 LET r == ret'.signal[i]
                 IN /\ r.current_qty = LedgerSum(scan_events, r.item_id, "INTAKE")
                                        - LedgerSum(scan_events, r.item_id, "CONSUME")
                    /\ r.triggered_at_qty =
                         replenishment_signals[
                            CurrentRow(replenishment_signals, r.signal_id)
                         ].triggered_at_qty
       /\ \A k \in 1..Len(replenishment_signals) :
            /\ k <= Len(replenishment_signals')
            /\ replenishment_signals'[k].triggered_at_qty
                 = replenishment_signals[k].triggered_at_qty]_vars

\* A list whose row shows a current quantity that differs from its snapshot:
\* events were appended after the signal was written.
C20_Witness ==
    /\ ret.op = "LIST"
    /\ \E i \in 1..Len(ret.signal) :
         /\ ret.signal[i].current_qty # ret.signal[i].triggered_at_qty
         /\ ret.signal[i].current_qty = live_inventory(scan_events, ret.signal[i].item_id)
         /\ scan_events[Len(scan_events)].item_id = ret.signal[i].item_id
         /\ scan_events[Len(scan_events)].event_ts > ret.signal[i].created_ts

\* The items a reader may ask for: those of the barcodes and one never scanned.
QueriedItems == Items \cup {<<"Z">>}

\* C21: for an item without events get_on_hand_qty is 0 and
\* get_inventory_item returns no row; for an item with at least one event
\* get_inventory_item returns a row, also when its on-hand quantity is 0.
C21_UnseenItemIsAbsent ==
    \A item \in QueriedItems :
        IF \E i \in 1..Len(scan_events) : scan_events[i].item_id = item
        THEN get_inventory_item(scan_events, item).present
        ELSE /\ ~get_inventory_item(scan_events, item).present
             /\ get_on_hand_qty(scan_events, item) = 0

\* One item with events whose on-hand quantity is 0 beside an item without.
C21_Witness ==
    /\ \E item \in Items :
         /\ \E i \in 1..Len(scan_events) : scan_events[i].item_id = item
         /\ get_inventory_item(scan_events, item).present
         /\ get_on_hand_qty(scan_events, item) = 0
    /\ \E item \in Items :
         /\ \A i \in 1..Len(scan_events) : scan_events[i].item_id # item
         /\ ~get_inventory_item(scan_events, item).present

\* C22: every step leaves each event and each signal row already written in
\* place and unchanged: each table after the step extends the table before.
C22_StoresAppendOnly ==
    [][/\ Len(scan_events') >= Len(scan_events)
       /\ SubSeq(scan_events', 1, Len(scan_events)) = scan_events
       /\ Len(replenishment_signals') >= Len(replenishment_signals)
       /\ SubSeq(replenishment_signals', 1, Len(replenishment_signals))
            = replenishment_signals]_vars

\* A signal that was opened, acknowledged or fulfilled: its rows are all kept.
C22_Witness ==
    /\ Len(scan_events) = 3
    /\ \E i, j \in 1..Len(replenishment_signals) :
         /\ i < j
         /\ replenishment_signals[i].signal_id = replenishment_signals[j].signal_id
         /\ replenishment_signals[i].status = "OPEN"
         /\ replenishment_signals[j].status = "FULFILLED"

\* The strings that carry quantity 0 or do not have the form
\* ITEM=<id>;QTY=<digits>.
Malformed == {bcA0, bcNoDigits, bcNoItem, bcTrailing}

\* C23: every event in the event table has qty > 0 and event_type INTAKE or
\* CONSUME, and a scan of a string with quantity 0 or not of the form
\* ITEM=<id>;QTY=<digits> ends with an error and appends nothing.
C23_EventsArePositive ==
    [][/\ \A i \in 1..Len(scan_events') :
            /\ scan_events'[i].qty > 0
            /\ scan_events'[i].event_type \in EventTypes
       /\ \A p \in Procs : \A b \in Malformed : \A t \in EventTypes :
            ScanStart(p, b, t)
            => /\ scan_events' = scan_events
               /\ replenishment_signals' = replenishment_signals
               /\ pc'[p] = "idle"
               /\ ret'.status \in {"BarcodeParseError", "DuplicateScan"}]_vars

\* A parse error returned while the table holds an event scanned from a
\* padded string.
C23_Witness ==
    /\ ret.status = "BarcodeParseError"
    /\ \E i \in 1..Len(scan_events) :
         /\ scan_events[i].barcode_raw = bcPadded
         /\ scan_events[i].qty = 3
    /\ {bcA0, bcNoDigits} \subseteq DOMAIN last_scans[1]

\* C24: an intake that leaves on-hand <= reorder_point returns straight after
\* its on-hand read and appends no signal row, so that every signal keeps its
\* current state.
C24_IntakeAtOrBelowLeavesSignals ==
    [][\A p \in Procs :
         /\ (pc[p] = "idle" /\ req'[p].op = "INTAKE")
              => replenishment_signals' = replenishment_signals
         /\ (/\ Returns(p)
             /\ req[p].op = "INTAKE"
             /\ ret'.status = "ok"
             /\ ret'.on_hand_qty <= reorder_point)
              => /\ pc[p] = "get_on_hand"
                 /\ replenishment_signals' = replenishment_signals
                 /\ \A sid \in SignalIds(replenishment_signals) :
                      CurrentStatus(replenishment_signals', sid)
                        = CurrentStatus(replenishment_signals, sid)]_vars

\* An intake returned on-hand equal to reorder_point while a signal of its
\* item is OPEN.
C24_Witness ==
    /\ ret.op = "INTAKE"
    /\ ret.status = "ok"
    /\ ret.on_hand_qty = reorder_point
    /\ OpenSignals(replenishment_signals, scan_events[ret.event_id].item_id) # {}

\* C25: every row an intake appends has status FULFILLED, carries the
\* signal_id, item_id, reorder_point, reorder_qty and triggered_at_qty of its
\* signal's prior current row, and has as trigger_event_id the id of the
\* intake's own event.
C25_FulfilledRowCopiesForward ==
    [][\A p \in Procs :
         (req[p].op = "INTAKE" /\ pc[p] = "fulfill_insert" /\ Returns(p))
         => /\ Len(replenishment_signals') > Len(replenishment_signals)
            /\ \A k \in (Len(replenishment_signals) + 1)..Len(replenishment_signals') :
                 LET new == replenishment_signals'[k]
                     prior == replenishment_signals[
                                CurrentRow(replenishment_signals, new.signal_id)]
                 IN /\ new.status = "FULFILLED"
                    /\ new.signal_id \in SignalIds(replenishment_signals)
                    /\ new.item_id = prior.item_id
                    /\ new.reorder_point = prior.reorder_point
                    /\ new.reorder_qty = prior.reorder_qty
                    /\ new.triggered_at_qty = prior.triggered_at_qty
                    /\ new.trigger_event_id = req[p].event_id
                    /\ scan_events[new.trigger_event_id].event_type = "INTAKE"]_vars

\* A FULFILLED row whose snapshot is neither the on-hand quantity now nor
\* the one the fulfilling intake returned.
C25_Witness ==
    /\ ret.op = "INTAKE"
    /\ ret.status = "ok"
    /\ \E k \in 1..Len(replenishment_signals) :
         LET row == replenishment_signals[k]
         IN /\ row.status = "FULFILLED"
            /\ row.trigger_event_id = ret.event_id
            /\ row.triggered_at_qty # ret.on_hand_qty
            /\ row.triggered_at_qty # get_on_hand_qty(scan_events, row.item_id)
                                        - scan_events[ret.event_id].qty

\* C26: in every state the read paths agree on which signals are OPEN:
\* has_open_signal(item) answers true exactly when get_signals filtered to
\* OPEN returns a row of the item, and the signals fulfill_open_signals
\* selects for the item are those get_signals reports as OPEN for it.
C26_ReadPathsAgree ==
    \A item \in Items :
      \A listed \in get_signals(replenishment_signals, scan_events, "OPEN",
                                default_limit) :
        LET listed_ids == {listed[i].signal_id :
                             i \in {j \in 1..Len(listed) : listed[j].item_id = item}}
        IN /\ \A answer \in has_open_signal(replenishment_signals, item) :
                answer = (listed_ids # {})
           /\ \A S \in fulfill_select(replenishment_signals, item) :
                {replenishment_signals[k].signal_id : k \in S} = listed_ids

\* A list that shows one signal of an item OPEN and another, opened earlier,
\* FULFILLED, while has_open_signal answers true for the item.
C26_Witness ==
    /\ ret.op = "LIST"
    /\ \E i, j \in 1..Len(ret.signal) :
         /\ ret.signal[i].status = "OPEN"
         /\ ret.signal[j].status = "FULFILLED"
         /\ ret.signal[i].item_id = ret.signal[j].item_id
         /\ has_open_signal(replenishment_signals, ret.signal[i].item_id) = {TRUE}
         /\ fulfill_select(replenishment_signals, ret.signal[i].item_id) # {{}}

\* The signals get_signals is to return under a status filter: those whose
\* current state has the status ("none": all).
Matching(rows, status) ==
    {sid \in SignalIds(rows) : status = "none" \/ CurrentStatus(rows, sid) = status}

\* C27: under status filter S get_signals returns only signals whose current
\* state is S, each with the status of its current row; the rows are in
\* descending order of created_ts, and the list is the first limit rows of
\* that order.
C27_FilterOnCurrentState ==
    [][\A p \in Procs : \A status \in StatusFilters : \A limit \in Limits :
         ListSignals(p, status, limit)
         => LET rows == replenishment_signals
                out == ret'.signal
                shown == {out[i].signal_id : i \in 1..Len(out)}
                cts(sid) == rows[CurrentRow(rows, sid)].created_ts
            IN /\ shown \subseteq Matching(rows, status)
               /\ \A i \in 1..Len(out) :
                    out[i].status = CurrentStatus(rows, out[i].signal_id)
               /\ Cardinality(shown) = Len(out)
               /\ Len(out) = IF Cardinality(Matching(rows, status)) < limit
                             THEN Cardinality(Matching(rows, status)) ELSE limit
               /\ \A i, j \in 1..Len(out) :
                    i < j => out[i].created_ts >= out[j].created_ts
               /\ \A sid \in Matching(rows, status) \ shown :
                    \A i \in 1..Len(out) : cts(sid) <= out[i].created_ts]_vars

\* C28: after an admitted debounce check no entry of the instance's map is
\* more than prune_horizon_seconds older than the check; and, debounce_seconds
\* being at most prune_horizon_seconds, every entry that was inside its
\* debounce window at the check is still in the map, unchanged, so a repeat
\* of its barcode is still rejected.
C28_PruneKeepsWindow ==
    [][\A p \in Procs : \A b \in PruneBarcodes : \A t \in EventTypes :
         (ScanStart(p, b, t) /\ ~debounce_rejects(last_scans[p], b, now))
         => /\ \A k \in DOMAIN last_scans'[p] :
                 now - last_scans'[p][k] <= prune_horizon_seconds
            /\ debounce_seconds <= prune_horizon_seconds
                 => \A k \in DOMAIN last_scans[p] :
                      now - last_scans[p][k] < debounce_seconds
                      => /\ k \in DOMAIN last_scans'[p]
                         /\ last_scans'[p][k] = last_scans[p][k]
                         /\ debounce_rejects(last_scans'[p], k, now)]_vars

\* A minute after its event the scanned barcode is gone from the map; the
\* check that pruned it left a one or two seconds old entry in place.
C28_Witness ==
    /\ \E i \in 1..Len(scan_events) :
         /\ scan_events[i].barcode_raw \notin DOMAIN last_scans[1]
         /\ Len(scan_events) = 1
    /\ \E k, m \in DOMAIN last_scans[1] :
         /\ last_scans[1][m] = now
         /\ now - last_scans[1][k] > 0
         /\ now - last_scans[1][k] < debounce_seconds

\* C29: when no intake or consume is in progress, an item with a signal in
\* current state OPEN has an on-hand quantity of at most reorder_point.
C29_OpenImpliesLowStock ==
    (\A p \in Procs : pc[p] = "idle" \/ req[p].op \notin EventTypes)
    => \A item \in Items :
         OpenSignals(replenishment_signals, item) # {}
         => get_on_hand_qty(scan_events, item) <= reorder_point

\* C30: a consume that leaves on-hand <= reorder_point while its item has no
\* OPEN signal but an ACKNOWLEDGED one appends the OPEN row of a new logical
\* signal, and the item then has two or more signals that are not FULFILLED.
C30_AcknowledgedDoesNotBlock ==
    [][\A p \in Procs :
         LET item == req[p].item_id
             rows == replenishment_signals
         IN (/\ Returns(p)
             /\ req[p].op = "CONSUME"
             /\ ret'.status = "ok"
             /\ ret'.on_hand_qty <= reorder_point
             /\ OpenSignals(rows, item) = {}
             /\ SignalsInState(rows, item, {"ACKNOWLEDGED"}) # {})
            => /\ Len(replenishment_signals') = Len(rows) + 1
               /\ SubSeq(replenishment_signals', 1, Len(rows)) = rows
               /\ LET new == replenishment_signals'[Len(rows) + 1]
                  IN /\ new.status = "OPEN"
                     /\ new.item_id = item
                     /\ new.signal_id \notin SignalIds(rows)
                     /\ ret'.signal = <<new>>
               /\ Cardinality(SignalsInState(replenishment_signals', item,
                                             {"OPEN", "ACKNOWLEDGED"})) >= 2]_vars

\* A consume returned the signal it opened while an earlier signal of the
\* item is ACKNOWLEDGED.
C30_Witness ==
    /\ ret.op = "CONSUME"
    /\ ret.status = "ok"
    /\ Len(ret.signal) = 1
    /\ ret.signal[1].status = "OPEN"
    /\ ret.signal[1] = replenishment_signals[Len(replenishment_signals)]
    /\ \E sid \in SignalsInState(replenishment_signals, ret.signal[1].item_id,
                                 {"ACKNOWLEDGED"}) : sid < ret.signal[1].signal_id

\* C31: a row appended to the signal table is OPEN exactly when its signal_id
\* is carried by no earlier row: OPEN rows start new logical signals, every
\* logical signal starts with an OPEN row, and no signal is opened again.
C31_NeverReopened ==
    [][LET rows == replenishment_signals
           after == replenishment_signals'
       IN /\ Len(after) >= Len(rows)
          /\ \A k \in (Len(rows) + 1)..Len(after) :
               (after[k].status = "OPEN")
                 <=> (after[k].signal_id \notin {after[j].signal_id : j \in 1..(k - 1)})]_vars

\* A signal of an item is FULFILLED and a later consume has opened a new
\* signal of the same item.
C31_Witness ==
    \E i, j \in 1..Len(replenishment_signals) :
      /\ i < j
      /\ replenishment_signals[i].status = "FULFILLED"
      /\ replenishment_signals[j].status = "OPEN"
      /\ replenishment_signals[i].item_id = replenishment_signals[j].item_id
      /\ replenishment_signals[i].signal_id # replenishment_signals[j].signal_id
      /\ ret.op = "CONSUME"
      /\ ret.signal = <<replenishment_signals[j]>>

\* C32: no logical signal has more than one FULFILLED row.
C32_FulfilledOnce ==
    \A sid \in SignalIds(replenishment_signals) :
      Cardinality({k \in RowsOfSignal(replenishment_signals, sid) :
                     replenishment_signals[k].status = "FULFILLED"}) <= 1

\* The signals an acknowledge and a fulfil raced on: both transactions read
\* the signal while its latest row was OPEN.  The FULFILLED row shows it for
\* the fulfil, which selects OPEN signals only; the ACKNOWLEDGED row shows it
\* for the acknowledge by the trigger_event_id it copied from the OPEN row.
RacedSignals(rows) ==
    {sid \in SignalIds(rows) :
       \E o, f, k \in RowsOfSignal(rows, sid) :
         /\ rows[o].status = "OPEN"
         /\ rows[f].status = "FULFILLED"
         /\ rows[k].status = "ACKNOWLEDGED"
         /\ rows[k].trigger_event_id = rows[o].trigger_event_id}

\* C33: a signal on which an acknowledge and a fulfil raced has current
\* state FULFILLED once both have committed.
C33_RaceEndsFulfilled ==
    \A sid \in RacedSignals(replenishment_signals) :
      CurrentStatus(replenishment_signals, sid) = "FULFILLED"

\* The first row of a logical signal.
FirstRow(rows, sid) ==
    CHOOSE i \in RowsOfSignal(rows, sid) : \A j \in RowsOfSignal(rows, sid) : i <= j

\* C34: every row carries the item_id, triggered_at_qty, reorder_point and
\* reorder_qty of the first row of its signal_id, and that first row is OPEN.
C34_RowsShareSnapshot ==
    \A k \in 1..Len(replenishment_signals) :
      LET row == replenishment_signals[k]
          first == replenishment_signals[FirstRow(replenishment_signals, row.signal_id)]
      IN /\ first.status = "OPEN"
         /\ row.item_id = first.item_id
         /\ row.triggered_at_qty = first.triggered_at_qty
         /\ row.reorder_point = first.reorder_point
         /\ row.reorder_qty = first.reorder_qty

\* A signal with an OPEN, a FULFILLED and an ACKNOWLEDGED row, while the
\* on-hand quantity of its item is no longer the quantity that triggered it.
C34_Witness ==
    \E sid \in SignalIds(replenishment_signals) :
      /\ {replenishment_signals[k].status :
            k \in RowsOfSignal(replenishment_signals, sid)}
           = {"OPEN", "ACKNOWLEDGED", "FULFILLED"}
      /\ LET first == replenishment_signals[FirstRow(replenishment_signals, sid)]
         IN get_on_hand_qty(scan_events, first.item_id) # first.triggered_at_qty

\* C35: the fulfil step of an intake either appends one FULFILLED row for
\* every signal it selected, or, when it fails, appends nothing; in both
\* cases the intake's scan event stays in the event table.
C35_FulfilAllOrNone ==
    [][\A p \in Procs :
         (pc[p] = "fulfill_insert" /\ pc'[p] = "idle")
         => LET rows == replenishment_signals
                after == replenishment_signals'
                sel == req[p].selected
                added == (Len(rows) + 1)..Len(after)
            IN /\ SubSeq(after, 1, Len(rows)) = rows
               /\ \/ /\ ret'.status = "ok"
                     /\ Len(after) = Len(rows) + Len(sel)
                     /\ \A i \in 1..Len(sel) :
                          \E k \in added :
                            /\ after[k].signal_id = sel[i].signal_id
                            /\ after[k].status = "FULFILLED"
                            /\ after[k].trigger_event_id = req[p].event_id
                  \/ /\ ret'.status = "PersistenceError"
                     /\ after = rows
               /\ scan_events' = scan_events
               /\ \E e \in 1..Len(scan_events) :
                    /\ scan_events[e].event_id = req[p].event_id
                    /\ scan_events[e].event_type = "INTAKE"]_vars

\* An intake that had selected two OPEN signals of its item failed in its
\* fulfil step: both are still OPEN, its event counts in the on-hand quantity.
C35_Witness ==
    /\ ret.op = "INTAKE"
    /\ ret.status = "PersistenceError"
    /\ \A p \in Procs : pc[p] = "idle"
    /\ \E item \in Items :
         /\ Cardinality(OpenSignals(replenishment_signals, item)) = 2
         /\ get_on_hand_qty(scan_events, item) > reorder_point
         /\ \A i \in 1..Len(replenishment_signals) :
              replenishment_signals[i].status = "OPEN"

\* C36: an admitted, well-formed consume scan appends its event whatever the
\* on-hand quantity of its item, and the consume returns the ledger's
\* difference of intakes and consumes, negative or not; the signal it opens
\* carries that quantity as triggered_at_qty.
C36_ConsumeNeverRefused ==
    [][\A p \in Procs :
         /\ \A b \in Barcodes :
              (/\ create_consume_event(p, b)
               /\ ~debounce_rejects(last_scans[p], b, now)
               /\ parse_barcode(b).ok)
              => /\ Len(scan_events') = Len(scan_events) + 1
                 /\ scan_events'[Len(scan_events')].event_type = "CONSUME"
                 /\ scan_events'[Len(scan_events')].item_id = parse_barcode(b).item_id
                 /\ scan_events'[Len(scan_events')].qty = parse_barcode(b).qty
                 /\ pc'[p] = "get_on_hand"
         /\ (Returns(p) /\ req[p].op = "CONSUME")
              => LET item == req[p].item_id
                     on_hand == LedgerSum(scan_events, item, "INTAKE")
                                  - LedgerSum(scan_events, item, "CONSUME")
                 IN /\ ret'.status = "ok"
                    /\ ret'.on_hand_qty = on_hand
                    /\ \A i \in 1..Len(ret'.signal) :
                         /\ ret'.signal[i].status = "OPEN"
                         /\ ret'.signal[i].triggered_at_qty = on_hand]_vars

\* A consume of an item that was never taken in has returned a negative
\* on-hand quantity and an OPEN signal triggered at that quantity.
C36_Witness ==
    /\ ret.op = "CONSUME"
    /\ ret.status = "ok"
    /\ ret.on_hand_qty < 0
    /\ Len(ret.signal) = 1
    /\ ret.signal[1].status = "OPEN"
    /\ ret.signal[1].triggered_at_qty = ret.on_hand_qty
    /\ ret.signal[1] = replenishment_signals[Len(replenishment_signals)]
    /\ get_inventory_item(scan_events, ret.signal[1].item_id).on_hand_qty < 0

\* C37: an admitted scan that fails at the parser or at the event INSERT
\* appends no event and still leaves its time in the debounce map; a scan of
\* a raw barcode that has no event at all, less than debounce_seconds after
\* such a failure, is rejected with DuplicateScan.
C37_FailedScanStillDebounces ==
    [][\A p \in Procs : \A b \in RepeatBarcodes : \A t \in EventTypes :
         /\ (ScanStart(p, b, t) /\ ~debounce_rejects(last_scans[p], b, now)
                /\ ~parse_barcode(b).ok)
              => /\ ret'.status = "BarcodeParseError"
                 /\ scan_events' = scan_events
                 /\ b \in DOMAIN last_scans'[p]
                 /\ last_scans'[p][b] = now
         /\ CreateEventFails(p, b, t)
              => /\ ret'.status = "PersistenceError"
                 /\ scan_events' = scan_events
                 /\ b \in DOMAIN last_scans'[p]
                 /\ last_scans'[p][b] = now
         /\ (/\ ScanStart(p, b, t)
             /\ b \in DOMAIN last_scans[p]
             /\ now - last_scans[p][b] < debounce_seconds
             /\ \A i \in 1..Len(scan_events) : scan_events[i].barcode_raw # b)
              => /\ ret'.status = "DuplicateScan"
                 /\ pc'[p] = "idle"
                 /\ scan_events' = scan_events
                 /\ last_scans' = last_scans]_vars

\* The only barcode the instance has admitted is well formed and has no
\* event: its INSERT failed; a repeat one or two seconds later was rejected.
C37_Witness ==
    /\ ret.status = "DuplicateScan"
    /\ \E b \in RepeatBarcodes :
         /\ DOMAIN last_scans[1] = {b}
         /\ parse_barcode(b).ok
         /\ now - last_scans[1][b] > 0
         /\ now - last_scans[1][b] < debounce_seconds
    /\ scan_events = <<>>

\* C38: the debounce map of an instance is read by raw barcode alone: a scan
\* of a string admitted less than debounce_seconds ago is rejected whether
\* it is an intake or a consume and whichever the admitted scan was, and a
\* scan of a string outside its window is admitted although another string
\* of the same item is inside its own.
C38_KeyedByRawBarcode ==
    [][\A p \in Procs : \A b \in Barcodes : \A t \in EventTypes :
         ScanStart(p, b, t)
         => LET inside(x) == /\ x \in DOMAIN last_scans[p]
                             /\ now - last_scans[p][x] < debounce_seconds
            IN /\ inside(b)
                    => /\ ret'.status = "DuplicateScan"
                       /\ ret'.op = t
                       /\ scan_events' = scan_events
               /\ (/\ ~inside(b)
                   /\ parse_barcode(b).ok
                   /\ \E other \in Barcodes \ {b} :
                        /\ inside(other)
                        /\ parse_barcode(other).ok
                        /\ parse_barcode(other).item_id = parse_barcode(b).item_id)
                    => /\ Len(scan_events') = Len(scan_events) + 1
                       /\ scan_events'[Len(scan_events')].barcode_raw = b
                       /\ scan_events'[Len(scan_events')].event_type = t
                       /\ last_scans'[p][b] = now]_vars

\* Two strings of one item were admitted as intakes less than
\* debounce_seconds apart, and a consume of one of them was then rejected.
C38_Witness ==
    /\ ret.status = "DuplicateScan"
    /\ ret.op = "CONSUME"
    /\ Len(scan_events) = 2
    /\ scan_events[1].event_type = "INTAKE"
    /\ scan_events[2].event_type = "INTAKE"
    /\ scan_events[1].item_id = scan_events[2].item_id
    /\ scan_events[1].barcode_raw # scan_events[2].barcode_raw
    /\ DOMAIN last_scans[1] = {scan_events[1].barcode_raw, scan_events[2].barcode_raw}
    /\ last_scans[1][scan_events[2].barcode_raw]
         - last_scans[1][scan_events[1].barcode_raw] < debounce_seconds
    /\ now - last_scans[1][scan_events[1].barcode_raw] < debounce_seconds

\* C39: a bulk intake skips the lines whose synthetic barcode is inside its
\* debounce window (a repeat of an earlier line of the request included)
\* without an error, appends exactly one INTAKE event for every other line,
\* and answers with total_items and total_qty equal to the number and the
\* quantity sum of the events it appended.
C39_BulkCountsAppended ==
    [][\A p \in Procs : \A items \in BulkRequests :
         BulkIntake(p, items)
         => LET new == SubSeq(scan_events', Len(scan_events) + 1, Len(scan_events'))
                bc(i) == synthetic_barcode(items[i])
                skipped(i) ==
                  \/ /\ bc(i) \in DOMAIN last_scans[p]
                     /\ now - last_scans[p][bc(i)] < debounce_seconds
                  \/ \E j \in 1..(i - 1) : items[j] = items[i]
                kept == {i \in 1..Len(items) : ~skipped(i)}
            IN /\ ret'.status = "ok"
               /\ Len(new) = Cardinality(kept)
               /\ \A i \in kept :
                    Cardinality({k \in 1..Len(new) :
                                   /\ new[k].event_type = "INTAKE"
                                   /\ new[k].item_id = items[i].item_id
                                   /\ new[k].qty = items[i].qty}) = 1
               /\ ret'.total_items = Len(new)
               /\ ret'.total_qty = SetSum([k \in 1..Len(new) |-> new[k].qty],
                                          1..Len(new))]_vars

====
